---- MODULE Spec2Model ----
(***************************************************************************)
(* Model of project/app/main.py: one FastAPI application object, created   *)
(* at module load, on which register_tortoise is called once and the route *)
(* GET /ping is registered; the route's handler, pong, receives the        *)
(* Settings value that Depends(get_settings) injects.                      *)
(*                                                                         *)
(* app.config (get_settings, Settings) is imported by main.py and is not   *)
(* part of the sources at hand: it is modelled from the specification      *)
(* (sections 3, 4.1 and 8).                                                *)
(***************************************************************************)
EXTENDS Integers, Sequences, FiniteSets, TLC

\* ---------------------------------------------------------------- bounds

\* Request slots: how many requests can be in flight at the same time.
NumSlots == 2
\* Requests accepted over the life of the process.
MaxRequests == 2
\* Changes of the process environment after module load.
MaxEnvChanges == 1

\* ------------------------------------------------------------ value sets

\* os.environ.get(name) of a variable that is not set.
Absent == "<absent>"

EnvironmentNames == {"dev", "prod"}
TestingStrings == {"0", "1"}
DatabaseUrls == {"sqlite://:memory:", "postgres://db:5432/web_dev"}

\* The process environment, restricted to the variables the program reads.
EnvSpace ==
    [ENVIRONMENT : EnvironmentNames \cup {Absent},
     TESTING : TestingStrings \cup {Absent},
     DATABASE_URL : DatabaseUrls \cup {Absent}]

Slots == 1..NumSlots
Paths == {"/ping", "/"}

VARIABLES
    environ,    \* os.environ
    pc,         \* position of the module's top-level code
    app,        \* the FastAPI application object
    cache,      \* get_settings' cache: <<>> or <<Settings value>>
    req,        \* the requests in flight, one per slot; req[r].seen is
                \* history: what the environment held when the request's
                \* dependencies were resolved, as Settings would read it
    bootEnv,    \* history: the environment the process started with
    built,      \* history: the environment of every Settings construction
    returned,   \* history: every value get_settings has returned
    sent,       \* history: every response sent for GET /ping
    accepted,   \* number of requests accepted so far
    envChanges  \* number of environment changes so far

vars == <<environ, pc, app, cache, req, bootEnv, built, returned, sent,
          accepted, envChanges>>

\* ------------------------------------------------------ Settings provider

\* Conversion of the TESTING variable's text to the boolean attribute.
ParseBool(s) == s = "1"

\* Settings(): the attributes read from the environment, with the defaults
\* environment="dev" and testing=False for variables that are not set.
Settings(env) ==
    [environment |-> IF env.ENVIRONMENT = Absent THEN "dev" ELSE env.ENVIRONMENT,
     testing |-> IF env.TESTING = Absent THEN FALSE ELSE ParseBool(env.TESTING)]

\* A provider without the cache: every call builds a Settings value.
get_settings_uncached(c, env) ==
    [value |-> Settings(env), cache |-> <<Settings(env)>>, constructed |-> TRUE]

\* get_settings(): the cached accessor. The first call constructs the
\* Settings value from the environment and stores it; later calls return the
\* stored value without reading the environment.
get_settings(c, env) ==
    IF c = <<>>
    THEN [value |-> Settings(env), cache |-> <<Settings(env)>>, constructed |-> TRUE]
    ELSE [value |-> c[1], cache |-> c, constructed |-> FALSE]

\* ------------------------------------------------------------ module load

\* app = FastAPI()
FastAPI == [routes |-> {}, tortoise |-> <<>>]

\* register_tortoise(app, db_url=..., modules=..., generate_schemas=...,
\* add_exception_handlers=...): the registration is recorded on the app.
register_tortoise(a, db_url, modules, generate_schemas, add_exception_handlers) ==
    [a EXCEPT !.tortoise =
        Append(@, [db_url |-> db_url,
                   modules |-> modules,
                   generate_schemas |-> generate_schemas,
                   add_exception_handlers |-> add_exception_handlers])]

TortoiseModules == [models |-> <<"app.models.tortoise">>]

CreateApp ==
    /\ pc = "line12"
    /\ app' = FastAPI
    /\ pc' = "line15"
    /\ UNCHANGED <<environ, cache, req, bootEnv, built, returned, sent,
                   accepted, envChanges>>

\* The registration call with schema generation switched on.
RegisterTortoise_generate ==
    /\ pc = "line15"
    /\ app' = register_tortoise(app, environ.DATABASE_URL, TortoiseModules,
                                TRUE, TRUE)
    /\ pc' = "line23"
    /\ UNCHANGED <<environ, cache, req, bootEnv, built, returned, sent,
                   accepted, envChanges>>

RegisterTortoise ==
    /\ pc = "line15"
    /\ app' = register_tortoise(app, environ.DATABASE_URL, TortoiseModules,
                                FALSE, TRUE)
    /\ pc' = "line23"
    /\ UNCHANGED <<environ, cache, req, bootEnv, built, returned, sent,
                   accepted, envChanges>>

\* @app.get("/ping")
RegisterRoute ==
    /\ pc = "line23"
    /\ app' = [app EXCEPT !.routes = @ \cup {"/ping"}]
    /\ pc' = "serving"
    /\ UNCHANGED <<environ, cache, req, bootEnv, built, returned, sent,
                   accepted, envChanges>>

\* --------------------------------------------------------------- requests

IdleSlot == [pc |-> "idle", path |-> "/", settings |-> <<>>,
             seen |-> <<>>, response |-> <<>>]

NotFound == [status |-> 404, body |-> [detail |-> "Not Found"]]
ServerError == [status |-> 500, body |-> [detail |-> "Internal Server Error"]]

\* A handler that reads an attribute Settings does not have.
pong_attribute_error(settings) ==
    [raised |-> TRUE, value |-> [detail |-> "AttributeError"]]

\* A handler whose body lacks the testing key.
pong_missing_key(settings) ==
    [raised |-> FALSE,
     value |-> [ping |-> "pong!", environment |-> settings.environment]]

\* A handler with another ping text.
pong_wrong_ping(settings) ==
    [raised |-> FALSE,
     value |-> [ping |-> "pong",
                environment |-> settings.environment,
                testing |-> settings.testing]]

\* async def pong(settings): the returned dict.
pong(settings) ==
    [raised |-> FALSE,
     value |-> [ping |-> "pong!",
                environment |-> settings.environment,
                testing |-> settings.testing]]

\* The server accepts a request; a path with no route is answered 404.
Receive(r, path) ==
    /\ pc = "serving"
    /\ req[r].pc = "idle"
    /\ accepted < MaxRequests
    /\ accepted' = accepted + 1
    /\ req' = [req EXCEPT ![r] =
                 IF path \in app.routes
                 THEN [IdleSlot EXCEPT !.pc = "deps", !.path = path]
                 ELSE [IdleSlot EXCEPT !.pc = "done", !.path = path,
                                       !.response = <<NotFound>>]]
    /\ UNCHANGED <<environ, pc, app, cache, bootEnv, built, returned, sent,
                   envChanges>>

\* A dependency on the Settings class itself: built anew for each request.
ResolveDeps_fresh(r) ==
    /\ req[r].pc = "deps"
    /\ req' = [req EXCEPT ![r].pc = "handler",
                          ![r].settings = <<Settings(environ)>>,
                          ![r].seen = <<Settings(environ)>>]
    /\ UNCHANGED <<environ, pc, app, cache, bootEnv, built, returned, sent,
                   accepted, envChanges>>

\* Depends(get_settings): the provider is called and its value injected.
ResolveDeps(r) ==
    /\ req[r].pc = "deps"
    /\ LET got == get_settings(cache, environ) IN
        /\ cache' = got.cache
        /\ built' = IF got.constructed THEN Append(built, environ) ELSE built
        /\ returned' = returned \cup {got.value}
        /\ req' = [req EXCEPT ![r].pc = "handler",
                              ![r].settings = <<got.value>>,
                              ![r].seen = <<Settings(environ)>>]
    /\ UNCHANGED <<environ, pc, app, bootEnv, sent, accepted, envChanges>>

\* The response the framework makes of what the handler did.
ResponseOf(result) ==
    IF result.raised THEN ServerError
    ELSE [status |-> 200, body |-> result.value]

\* A handler that registers the database again.
Handle_registers(r) ==
    /\ req[r].pc = "handler"
    /\ req' = [req EXCEPT ![r].pc = "done",
                          ![r].response = <<ResponseOf(pong(req[r].settings[1]))>>]
    /\ app' = register_tortoise(app, environ.DATABASE_URL, TortoiseModules,
                                FALSE, TRUE)
    /\ UNCHANGED <<environ, pc, cache, bootEnv, built, returned, sent,
                   accepted, envChanges>>

\* A handler that assigns to an attribute of the shared Settings object.
Handle_mutates(r) ==
    /\ req[r].pc = "handler"
    /\ req' = [req EXCEPT ![r].pc = "done",
                          ![r].response = <<ResponseOf(pong(req[r].settings[1]))>>]
    /\ cache' = IF cache = <<>> THEN cache
                ELSE <<[cache[1] EXCEPT !.testing = ~@]>>
    /\ UNCHANGED <<environ, pc, app, bootEnv, built, returned, sent,
                   accepted, envChanges>>

\* A handler that reads the environment itself instead of the Settings.
Handle_reads_environ(r) ==
    /\ req[r].pc = "handler"
    /\ req' = [req EXCEPT ![r].pc = "done",
                          ![r].response = <<ResponseOf(pong(Settings(environ)))>>]
    /\ UNCHANGED <<environ, pc, app, cache, bootEnv, built, returned, sent,
                   accepted, envChanges>>

\* The route calls pong with the injected Settings and answers with its
\* return value.
Handle(r) ==
    /\ req[r].pc = "handler"
    /\ req' = [req EXCEPT ![r].pc = "done",
                          ![r].response = <<ResponseOf(pong(req[r].settings[1]))>>]
    /\ UNCHANGED <<environ, pc, app, cache, bootEnv, built, returned, sent,
                   accepted, envChanges>>

\* The response leaves the process; the slot is free again.
Send(r) ==
    /\ req[r].pc = "done"
    /\ sent' = IF req[r].path = "/ping"
               THEN sent \cup {req[r].response[1]} ELSE sent
    /\ req' = [req EXCEPT ![r] = IdleSlot]
    /\ UNCHANGED <<environ, pc, app, cache, bootEnv, built, returned,
                   accepted, envChanges>>

\* ------------------------------------------------------------ environment

\* The process environment changes while the application serves.
SetEnv(name, value) ==
    /\ pc = "serving"
    /\ envChanges < MaxEnvChanges
    /\ value \in {e[name] : e \in EnvSpace}
    /\ environ[name] # value
    /\ environ' = [environ EXCEPT ![name] = value]
    /\ envChanges' = envChanges + 1
    /\ UNCHANGED <<pc, app, cache, req, bootEnv, built, returned, sent,
                   accepted>>

\* ---------------------------------------------------------- specification

Init ==
    /\ environ \in EnvSpace
    /\ bootEnv = environ
    /\ pc = "line12"
    /\ app = [routes |-> {}, tortoise |-> <<>>]
    /\ cache = <<>>
    /\ req = [r \in Slots |-> IdleSlot]
    /\ built = <<>>
    /\ returned = {}
    /\ sent = {}
    /\ accepted = 0
    /\ envChanges = 0

Next ==
    \/ CreateApp
    \/ RegisterTortoise
    \/ RegisterRoute
    \/ \E r \in Slots, path \in Paths : Receive(r, path)
    \/ \E r \in Slots : ResolveDeps(r)
    \/ \E r \in Slots : Handle(r)
    \/ \E r \in Slots : Send(r)
    \/ \E name \in {"ENVIRONMENT", "TESTING", "DATABASE_URL"},
          value \in EnvironmentNames \cup TestingStrings \cup DatabaseUrls
                    \cup {Absent} :
          SetEnv(name, value)

Spec == Init /\ [][Next]_vars

\* ----------------------------------------------------------------- claims

\* Slot r holds a finished GET /ping request whose response is not yet sent.
Done(r) == req[r].pc = "done" /\ req[r].path = "/ping"

\* Every response made so far for GET /ping, sent or about to be.
PingResponses == sent \cup {req[r].response[1] : r \in {x \in Slots : Done(x)}}

SettingsVars == {"ENVIRONMENT", "TESTING"}

\* C1: every GET /ping request is answered with status 200, whatever the
\* Settings value and whatever requests came before.
C1_AlwaysOk == \A resp \in PingResponses : resp.status = 200

\* C1's case: a GET /ping request is answered after an earlier one was sent,
\* with settings that are not the defaults.
C1_Witness ==
    /\ sent # {}
    /\ \E r \in Slots :
        /\ Done(r)
        /\ req[r].settings[1] # [environment |-> "dev", testing |-> FALSE]

\* C2: the body of every GET /ping response has exactly the keys ping,
\* environment and testing; ping is "pong!", environment is a string and
\* testing is a boolean.
C2_FixedShape ==
    \A resp \in PingResponses :
        /\ DOMAIN resp.body = {"ping", "environment", "testing"}
        /\ resp.body.ping = "pong!"
        /\ resp.body.environment \in STRING
        /\ resp.body.testing \in BOOLEAN

\* C2's case: a response was made from settings read from the environment,
\* after the environment changed.
C2_Witness ==
    /\ envChanges > 0
    /\ \E resp \in PingResponses :
        resp.body.testing /\ resp.body.environment = "prod"

\* C3 as stated: the environment and testing values of a response are what
\* the process environment held when the request was handled, also after the
\* environment changed between two requests.
C3_MatchesRequestTimeEnv ==
    \A r \in Slots :
        Done(r) =>
            /\ req[r].response[1].body.environment = req[r].seen[1].environment
            /\ req[r].response[1].body.testing = req[r].seen[1].testing

\* C3 amended: the environment and testing values of a response are those of
\* the value the Settings provider resolves to, which is the cached value and
\* not a fresh reading of the environment.
C3_MatchesProvider ==
    \A r \in Slots :
        Done(r) =>
            LET now == get_settings(cache, environ).value IN
            /\ req[r].response[1].status = 200
            /\ req[r].response[1].body.environment = now.environment
            /\ req[r].response[1].body.testing = now.testing

\* C3's case: a request was handled when the environment no longer held what
\* the provider resolves to.
C3_Witness ==
    \E r \in Slots :
        /\ Done(r)
        /\ cache # <<>>
        /\ req[r].seen[1] # cache[1]

\* C4: all calls of get_settings return the same Settings value, the one
\* built from the environment of the first call, and the responses carry it,
\* whatever the environment holds later.
C4_Cached ==
    /\ Cardinality(returned) <= 1
    /\ returned # {} =>
        /\ Len(built) = 1
        /\ returned = {Settings(built[1])}
        /\ cache = <<Settings(built[1])>>
    /\ \A resp \in PingResponses :
        /\ returned # {}
        /\ \A s \in returned :
            /\ resp.body.environment = s.environment
            /\ resp.body.testing = s.testing

\* C4's case: get_settings was called when the environment had changed since
\* the first call, and a response was made from what it returned.
C4_Witness ==
    /\ built # <<>>
    /\ Settings(environ) # Settings(built[1])
    /\ \E r \in Slots :
        /\ Done(r)
        /\ req[r].seen[1] = Settings(environ)
        /\ req[r].settings[1] = Settings(built[1])

\* C5: when the Settings variables are not set, the Settings value is the
\* default one and the response is exactly 200 with the body
\* {ping: "pong!", environment: "dev", testing: false}.
C5_Defaults ==
    \A r \in Slots :
        (/\ Done(r)
         /\ built # <<>>
         /\ \A name \in SettingsVars : built[1][name] = Absent)
        => req[r].response[1] =
             [status |-> 200,
              body |-> [ping |-> "pong!", environment |-> "dev",
                        testing |-> FALSE]]

\* C5's case: a process started with no variable set has answered GET /ping.
C5_Witness ==
    /\ \A name \in DOMAIN bootEnv : bootEnv[name] = Absent
    /\ built = <<bootEnv>>
    /\ \E r \in Slots : Done(r)

\* C6: the pong handler changes neither the cached Settings nor the
\* application object, and while the application serves, its routes and its
\* database registrations stay as they were and a filled cache keeps its
\* value.
C6_NoSideEffect ==
    [][/\ (\E r \in Slots : Handle(r)) => (cache' = cache /\ app' = app)
       /\ pc = "serving" =>
            /\ app' = app
            /\ cache # <<>> => cache' = cache]_vars

\* C6's case: the handler has run for every request the process accepts.
C6_Witness ==
    /\ accepted = MaxRequests
    /\ Cardinality(sent) = 1
    /\ \A r \in Slots : req[r].pc = "idle"
    /\ app = register_tortoise([FastAPI EXCEPT !.routes = {"/ping"}],
                               bootEnv.DATABASE_URL, TortoiseModules,
                               FALSE, TRUE)

C8_RegisteredOnce ==
    /\ Len(app.tortoise) <= 1
    /\ pc \in {"line23", "serving"} =>
        /\ Len(app.tortoise) = 1
        /\ ~app.tortoise[1].generate_schemas
        /\ app.tortoise[1].add_exception_handlers
    /\ (accepted > 0 \/ \E r \in Slots : req[r].pc # "idle") =>
        (pc = "serving" /\ Len(app.tortoise) = 1)

\* C8's case: requests were handled and the registration of module load is
\* still the only one.
C8_Witness ==
    /\ sent # {}
    /\ accepted > 1
    /\ Len(app.tortoise) = 1

\* C9: when DATABASE_URL is not set at startup, no database is registered on
\* the application, and GET /ping is answered 200 with the fixed body.
C9_OptionalRegistration ==
    (pc = "serving" /\ bootEnv.DATABASE_URL = Absent) =>
        /\ app.tortoise = <<>>
        /\ \A resp \in PingResponses :
            /\ resp.status = 200
            /\ DOMAIN resp.body = {"ping", "environment", "testing"}

\* C10: all GET /ping responses of a process have the same body, and the
\* registration uses the DATABASE_URL read at module load, whatever
\* DATABASE_URL holds later.
C10_Deterministic ==
    /\ Cardinality({resp.body : resp \in PingResponses}) <= 1
    /\ app.tortoise # <<>> => app.tortoise[1].db_url = bootEnv.DATABASE_URL

\* C10's case: two responses were made, the second after the environment
\* changed.
C10_Witness ==
    /\ sent # {}
    /\ Settings(environ) # Settings(bootEnv)
    /\ \E r \in Slots : Done(r) /\ req[r].seen[1] = Settings(environ)

====
